---- MODULE Spec2Model ----
(***************************************************************************)
(* A model of the InfluxDB HTTP client of src/src/client.rs.               *)
(*                                                                         *)
(* Text is a TLA+ string; Char(s, i) is its i-th character.  An            *)
(* Option<T> is a sequence of length at most one: None is <<>> and         *)
(* Some(x) is <<x>>.                                                       *)
(***************************************************************************)
EXTENDS Integers, Sequences, FiniteSets, TLC

VARIABLES
    host,            \* InfluxClient.host
    db,              \* InfluxClient.db
    authentication,  \* InfluxClient.authentication : Option<(user, passwd)>
    call,            \* Option: the call in flight (its name and arguments)
    request,         \* Option: the HTTP request the call in flight has sent
    response,        \* the HTTP response the last finished call received
    result,          \* what the last finished call returned (or its panic)
    point,           \* Option<Point>: the point the caller is building
    order,           \* the add_tag ("tag") and add_field ("field") calls on it, in order
    docs,            \* the JSON documents the server put on the chunked response
    yielded          \* what the ChunkedQuery of result has yielded so far

vars == <<host, db, authentication, call, request, response, result,
          point, order, docs, yielded>>

None == <<>>
Some(x) == <<x>>

----------------------------------------------------------------------------
(* Text helpers (std::str of the Rust standard library)                    *)

Char(s, i) == IF i >= 1 /\ i <= Len(s) THEN SubSeq(s, i, i) ELSE ""

\* str::starts_with
starts_with(s, p) == Len(p) <= Len(s) /\ SubSeq(s, 1, Len(p)) = p

\* str::contains
contains(s, p) ==
    \E i \in 1..(Len(s) - Len(p) + 1) : SubSeq(s, i, i + Len(p) - 1) = p

UpperAlpha == "ABCDEFGHIJKLMNOPQRSTUVWXYZ"
LowerAlpha == "abcdefghijklmnopqrstuvwxyz"

UpperChars == {Char(UpperAlpha, i) : i \in 1..Len(UpperAlpha)}
LowerOf ==
    [c \in UpperChars |->
        Char(LowerAlpha, CHOOSE i \in 1..Len(UpperAlpha) : Char(UpperAlpha, i) = c)]

LowerChar(c) == IF c \in UpperChars THEN LowerOf[c] ELSE c

RECURSIVE to_lowercase(_)
\* str::to_lowercase
to_lowercase(s) ==
    IF s = "" THEN "" ELSE LowerChar(Head(s)) \o to_lowercase(Tail(s))

----------------------------------------------------------------------------
(* serde_json: a parser of the JSON subset the bodies use (objects,        *)
(* arrays, strings with backslash escapes, null, insignificant whitespace) *)

JsonWs == {" ", "\n"}

Fail == [ok |-> FALSE, val |-> [t |-> "null", v |-> <<>>], next |-> 0]
Parsed(v, n) == [ok |-> TRUE, val |-> v, next |-> n]

RECURSIVE SkipWs(_, _)
SkipWs(s, i) == IF Char(s, i) \in JsonWs THEN SkipWs(s, i + 1) ELSE i

RECURSIVE ParseString(_, _, _)
\* i is the position after the opening quote, acc the characters read so far
ParseString(s, i, acc) ==
    IF i > Len(s) THEN Fail
    ELSE IF Char(s, i) = "\"" THEN Parsed([t |-> "str", v |-> acc], i + 1)
    ELSE IF Char(s, i) = "\\"
         THEN IF i + 1 > Len(s) THEN Fail
              ELSE ParseString(s, i + 2, acc \o Char(s, i + 1))
    ELSE ParseString(s, i + 1, acc \o Char(s, i))

RECURSIVE ParseValue(_, _), ParseMembers(_, _, _), ParseElements(_, _, _)
\* one JSON value starting at or after position i0; next is the position
\* after its last character: nothing behind the value is read
ParseValue(s, i0) ==
    LET i == SkipWs(s, i0)
        c == Char(s, i)
    IN  IF c = "\"" THEN ParseString(s, i + 1, "")
        ELSE IF c = "{"
             THEN LET j == SkipWs(s, i + 1)
                  IN  IF Char(s, j) = "}"
                      THEN Parsed([t |-> "obj", v |-> <<>>], j + 1)
                      ELSE ParseMembers(s, j, <<>>)
        ELSE IF c = "["
             THEN LET j == SkipWs(s, i + 1)
                  IN  IF Char(s, j) = "]"
                      THEN Parsed([t |-> "arr", v |-> <<>>], j + 1)
                      ELSE ParseElements(s, j, <<>>)
        ELSE IF i + 3 <= Len(s) /\ SubSeq(s, i, i + 3) = "null"
             THEN Parsed([t |-> "null", v |-> <<>>], i + 4)
        ELSE Fail

\* the members of an object from position i on, acc the members read so far;
\* k is the key just read and v the value after its colon
ParseMembers(s, i, acc) ==
    LET j == SkipWs(s, i)
    IN  IF Char(s, j) # "\"" THEN Fail
        ELSE CHOOSE r \in
            { IF ~k.ok \/ Char(s, SkipWs(s, k.next)) # ":" THEN Fail
              ELSE CHOOSE r2 \in
                { IF ~v.ok THEN Fail
                  ELSE IF Char(s, SkipWs(s, v.next)) = ","
                       THEN ParseMembers(s, SkipWs(s, v.next) + 1,
                                         Append(acc, <<k.val.v, v.val>>))
                  ELSE IF Char(s, SkipWs(s, v.next)) = "}"
                       THEN Parsed([t |-> "obj", v |-> Append(acc, <<k.val.v, v.val>>)],
                                   SkipWs(s, v.next) + 1)
                  ELSE Fail
                  : v \in {ParseValue(s, SkipWs(s, k.next) + 1)} } : TRUE
              : k \in {ParseString(s, j + 1, "")} } : TRUE

\* the elements of an array from position i on, acc the elements read so far
ParseElements(s, i, acc) ==
    CHOOSE r \in
        { IF ~v.ok THEN Fail
          ELSE IF Char(s, SkipWs(s, v.next)) = ","
               THEN ParseElements(s, SkipWs(s, v.next) + 1, Append(acc, v.val))
          ELSE IF Char(s, SkipWs(s, v.next)) = "]"
               THEN Parsed([t |-> "arr", v |-> Append(acc, v.val)], SkipWs(s, v.next) + 1)
          ELSE Fail
          : v \in {ParseValue(s, i)} } : TRUE

----------------------------------------------------------------------------
(* The Query result tree (keys.rs, not among the source files; after the   *)
(* data model of the specification):                                       *)
(*   Query { results: Option<Vec<Node>>, error: Option<String> }           *)
(*   Node  { series: Option<Vec<Series>>, error: Option<String> }          *)

HasField(o, k) == \E n \in 1..Len(o.v) : o.v[n][1] = k
Field(o, k) == o.v[CHOOSE n \in 1..Len(o.v) : o.v[n][1] = k][2]

\* an Option<String> field: absent or null is None
OptString(o, k) ==
    IF ~HasField(o, k) \/ Field(o, k).t = "null" THEN [ok |-> TRUE, val |-> None]
    ELSE IF Field(o, k).t = "str" THEN [ok |-> TRUE, val |-> Some(Field(o, k).v)]
    ELSE [ok |-> FALSE, val |-> None]

\* a Series is kept as the JSON object it came from
SeriesOf(v) == [ok |-> v.t = "obj", val |-> v]

\* a Vec<T> from a JSON array whose elements have been decoded already
VecOf(decoded) ==
    IF \A n \in 1..Len(decoded) : decoded[n].ok
    THEN [ok |-> TRUE, val |-> Some([n \in 1..Len(decoded) |-> decoded[n].val])]
    ELSE [ok |-> FALSE, val |-> None]

\* Node.series : Option<Vec<Series>>
OptSeries(o) ==
    IF ~HasField(o, "series") \/ Field(o, "series").t = "null"
    THEN [ok |-> TRUE, val |-> None]
    ELSE IF Field(o, "series").t # "arr" THEN [ok |-> FALSE, val |-> None]
    ELSE CHOOSE r \in
            {VecOf(d) : d \in {[n \in 1..Len(a.v) |-> SeriesOf(a.v[n])] :
                               a \in {Field(o, "series")}}} : TRUE

NodeOf(v) ==
    IF v.t # "obj" THEN [ok |-> FALSE, val |-> None]
    ELSE CHOOSE r \in
            { [ok |-> s.ok /\ e.ok, val |-> [series |-> s.val, error |-> e.val]]
              : s \in {OptSeries(v)}, e \in {OptString(v, "error")} } : TRUE

\* Query.results : Option<Vec<Node>>
OptResults(o) ==
    IF ~HasField(o, "results") \/ Field(o, "results").t = "null"
    THEN [ok |-> TRUE, val |-> None]
    ELSE IF Field(o, "results").t # "arr" THEN [ok |-> FALSE, val |-> None]
    ELSE CHOOSE r \in
            {VecOf(d) : d \in {[n \in 1..Len(a.v) |-> NodeOf(a.v[n])] :
                               a \in {Field(o, "results")}}} : TRUE

QueryOf(v) ==
    IF v.t # "obj" THEN [ok |-> FALSE, val |-> None]
    ELSE CHOOSE r \in
            { [ok |-> rs.ok /\ e.ok, val |-> [results |-> rs.val, error |-> e.val]]
              : rs \in {OptResults(v)}, e \in {OptString(v, "error")} } : TRUE

\* serde_json::from_str::<Query>: one document, nothing but whitespace after
from_str(s) ==
    CHOOSE r \in
        { IF p.ok /\ SkipWs(s, p.next) > Len(s)
          THEN CHOOSE r2 \in
                { IF t.ok THEN [ok |-> TRUE, val |-> t.val]
                  ELSE [ok |-> FALSE, val |-> None] : t \in {QueryOf(p.val)} } : TRUE
          ELSE [ok |-> FALSE, val |-> None]
          : p \in {ParseValue(s, 1)} } : TRUE

----------------------------------------------------------------------------
(* serialization.rs and keys.rs are not among the source files; what       *)
(* client.rs calls of them follows the specification.                      *)

ConversionDelims == {"'", "\"", " ", "\n"}

RECURSIVE TrimStart(_)
TrimStart(s) ==
    IF s # "" /\ Head(s) \in ConversionDelims THEN TrimStart(Tail(s)) ELSE s

RECURSIVE TrimEnd(_)
TrimEnd(s) ==
    IF s # "" /\ Char(s, Len(s)) \in ConversionDelims
    THEN TrimEnd(SubSeq(s, 1, Len(s) - 1)) ELSE s

\* serialization::conversion: the message without the delimiters around it
conversion(s) == TrimEnd(TrimStart(s))

RECURSIVE EscapeChars(_, _)
\* every character of s that is in cs gets a backslash in front of it
EscapeChars(s, cs) ==
    IF s = "" THEN ""
    ELSE (IF Head(s) \in cs THEN "\\" \o Head(s) ELSE Head(s))
         \o EscapeChars(Tail(s), cs)

\* serialization::quote_ident: an identifier in double quotes
quote_ident(s) == "\"" \o s \o "\""

\* serialization::quote_literal: a literal in single quotes, its own escaped
quote_literal(s) == "'" \o EscapeChars(s, {"'"}) \o "'"

Precisions ==
    {"Nanoseconds", "Microseconds", "Milliseconds", "Seconds", "Minutes", "Hours"}

\* Precision::to_str: the wire token of a timestamp unit
to_str(p) ==
    CASE p = "Nanoseconds"  -> "ns"
      [] p = "Microseconds" -> "us"
      [] p = "Milliseconds" -> "ms"
      [] p = "Seconds"      -> "s"
      [] p = "Minutes"      -> "m"
      [] p = "Hours"        -> "h"

Digits == "0123456789"

RECURSIVE NatToStr(_)
NatToStr(n) ==
    IF n < 10 THEN Char(Digits, n + 1)
    ELSE NatToStr(n \div 10) \o Char(Digits, (n % 10) + 1)

\* i64::to_string
IntToStr(n) == IF n < 0 THEN "-" \o NatToStr(-n) ELSE NatToStr(n)

\* A Value is String(text), Integer(i64), Float or Boolean; the model's
\* floats are tenths: Float(215) stands for 21.5
FloatToStr(t) ==
    IF t % 10 = 0 THEN NatToStr(t \div 10)
    ELSE NatToStr(t \div 10) \o "." \o NatToStr(t % 10)

KeyEscapes == {",", "=", " "}
MeasurementEscapes == {",", " "}
StringEscapes == {"\"", "\\"}

\* a tag value: always text
TagValue(v) ==
    CASE v.type = "String"  -> EscapeChars(v.v, KeyEscapes)
      [] v.type = "Integer" -> IntToStr(v.v)
      [] v.type = "Float"   -> FloatToStr(v.v)
      [] v.type = "Boolean" -> IF v.v THEN "true" ELSE "false"

\* a field value, by variant
FieldValue(v) ==
    CASE v.type = "String"  -> "\"" \o EscapeChars(v.v, StringEscapes) \o "\""
      [] v.type = "Integer" -> IntToStr(v.v) \o "i"
      [] v.type = "Float"   -> FloatToStr(v.v)
      [] v.type = "Boolean" -> IF v.v THEN "true" ELSE "false"

RECURSIVE TagBlock(_)
\* ,key=value for every tag, in the point's order
TagBlock(tags) ==
    IF tags = <<>> THEN ""
    ELSE "," \o EscapeChars(Head(tags)[1], KeyEscapes) \o "="
         \o TagValue(Head(tags)[2]) \o TagBlock(Tail(tags))

RECURSIVE FieldBlock(_)
\* key=value[,key=value...] for the fields, in the point's order
FieldBlock(fields) ==
    IF fields = <<>> THEN ""
    ELSE EscapeChars(Head(fields)[1], KeyEscapes) \o "=" \o FieldValue(Head(fields)[2])
         \o (IF Len(fields) > 1 THEN "," ELSE "") \o FieldBlock(Tail(fields))

\* an encoder that writes the fields where the tags belong
PointLine_fields_first(p) ==
    EscapeChars(p.measurement, MeasurementEscapes)
    \o (IF p.fields = <<>> THEN "" ELSE "," \o FieldBlock(p.fields))
    \o " " \o (IF p.tags = <<>> THEN "" ELSE SubSeq(TagBlock(p.tags), 2, Len(TagBlock(p.tags))))
    \o (IF p.timestamp = None THEN "" ELSE " " \o IntToStr(p.timestamp[1]))

\* measurement[,tags] fields[ timestamp]
PointLine(p) ==
    EscapeChars(p.measurement, MeasurementEscapes) \o TagBlock(p.tags)
    \o " " \o FieldBlock(p.fields)
    \o (IF p.timestamp = None THEN "" ELSE " " \o IntToStr(p.timestamp[1]))

RECURSIVE line_serialization(_)
\* serialization::line_serialization: one line per point, joined by \n
line_serialization(points) ==
    IF points = <<>> THEN ""
    ELSE PointLine(Head(points))
         \o (IF Len(points) > 1 THEN "\n" ELSE "") \o line_serialization(Tail(points))

----------------------------------------------------------------------------
(* What the caller and the server may supply                               *)

MaxFrags == 3
MaxDocs == 3
MaxAdds == 3

Hosts == {"http://localhost:8086", "localhost"}
DbNames == {"test", "mydb"}
Credentials == {<<"root", "root">>}
RetentionPolicies == {"autogen"}

Statuses == {200, 204, 400, 401, 403, 404, 500, 503}
Bodies ==
    {"", "'no'\n", "{}", "{\"error\":\"foo\"}", "{\"error\":\" 'foo' \"}",
     "{\"results\":[]}", "{\"results\":[{\"error\":\"bad\"}]}"}
Responses == [status : Statuses, body : Bodies]

\* no response: the transport failed (send() returned Err)
NoResponse == [status |-> 0, body |-> ""]

RECURSIVE Concat(_)
Concat(ss) == IF ss = <<>> THEN "" ELSE Head(ss) \o Concat(Tail(ss))

\* the statements a caller may pass: up to MaxFrags fragments in a row
Fragments == {"select ", "SHOW ", "into ", "x "}
Statements == {Concat(fs) : fs \in UNION {[1..n -> Fragments] : n \in 0..MaxFrags}}

\* the documents of a chunked response: up to MaxDocs of these in a row
DocTexts == {"{\"results\":[]}\n", "{\"error\":\"foo\"}", "no"}
DocSeqs == UNION {[1..n -> DocTexts] : n \in 0..MaxDocs}

Str(s) == [type |-> "String", v |-> s]
Integer(n) == [type |-> "Integer", v |-> n]
Float(t) == [type |-> "Float", v |-> t]
Boolean(b) == [type |-> "Boolean", v |-> b]

TagInputs == {<<"city", Str("N Y")>>, <<"n", Integer(12)>>}
FieldInputs == {<<"value", Float(215)>>, <<"s,x", Str("a \"b\"")>>}
Measurements == {"te mp"}
Timestamps == {150}

NewPoint(m) == [measurement |-> m, tags |-> <<>>, fields |-> <<>>, timestamp |-> None]

PointInputs ==
    { [NewPoint("cpu") EXCEPT !.fields = << <<"load", Float(5)>> >>] }

PointsInputs ==
    { << [NewPoint("temp") EXCEPT !.tags = << <<"city", Str("NY")>> >>,
                                  !.fields = << <<"value", Float(215)>> >>] >>,
      << [NewPoint("test1") EXCEPT !.fields = << <<"integer", Integer(11)>> >>],
         [NewPoint("test1") EXCEPT !.fields = << <<"foo", Str("bar")>> >>,
                                  !.timestamp = Some(150)] >> }

----------------------------------------------------------------------------
(* Results                                                                 *)

Ok(v) == [kind |-> "Ok", msg |-> "", value |-> v]
Err(kind, msg) == [kind |-> kind, msg |-> msg, value |-> None]
\* an unwrap() of Err or None: the thread panics, nothing is returned
Panic == [kind |-> "panic", msg |-> "", value |-> None]

NoResult == [op |-> "", kind |-> "", msg |-> "", value |-> None]
Ret(op, o) == [op |-> op, kind |-> o.kind, msg |-> o.msg, value |-> o.value]

NoArgs(op) ==
    [op |-> op, q |-> "", epoch |-> None, chunked |-> FALSE,
     precision |-> None, rp |-> None, points |-> <<>>]

Idle == call = None

----------------------------------------------------------------------------
(* InfluxClient                                                            *)

\* Url::parse(&self.host).unwrap().join(key).unwrap(): a host that is no
\* absolute http(s) URL has no base to join the key to
UrlOk(h) == starts_with(h, "http://") \/ starts_with(h, "https://")

build_url(key, param) ==
    [ok |-> UrlOk(host),
     path |-> key,
     query |-> (IF authentication = None THEN <<>>
                ELSE << <<"u", authentication[1][1]>>, <<"p", authentication[1][2]>> >>)
               \o param]

\* a call builds its URL and sends its request, or panics in build_url
Start(c, method, url, body) ==
    /\ Idle
    /\ IF url.ok
       THEN /\ call' = Some(c)
            /\ request' = Some([method |-> method, path |-> url.path,
                                query |-> url.query, body |-> body])
            /\ result' = NoResult
       ELSE /\ call' = None
            /\ request' = None
            /\ result' = Ret(c.op, Panic)
    /\ response' = NoResponse
    /\ docs' = <<>>
    /\ yielded' = <<>>
    /\ UNCHANGED <<host, db, authentication>>

\* the call in flight gets its response and returns
Finish(o, res) ==
    /\ result' = Ret(call[1].op, o)
    /\ response' = res
    /\ call' = None
    /\ request' = None
    /\ UNCHANGED <<host, db, authentication, point, order, yielded>>

\* a call that sends nothing
Local(op, o) ==
    /\ Idle
    /\ result' = Ret(op, o)
    /\ response' = NoResponse
    /\ docs' = <<>>
    /\ yielded' = <<>>
    /\ UNCHANGED <<call, request, point, order>>

switch_database ==
    \E d \in DbNames :
        /\ Local("switch_database", Ok(None))
        /\ db' = d
        /\ UNCHANGED <<host, authentication>>

set_authentication ==
    \E c \in Credentials :
        /\ Local("set_authentication", Ok(None))
        /\ authentication' = Some(c)
        /\ UNCHANGED <<host, db>>

get_db ==
    /\ Local("get_db", Ok(Some(db)))
    /\ UNCHANGED <<host, db, authentication>>

TransportError == Err("Transport", "")

ping ==
    /\ Start(NoArgs("ping"), "GET", build_url("ping", <<>>), "")
    /\ UNCHANGED <<point, order>>

ping_outcome(res) ==
    IF res # NoResponse /\ res.status = 200
    THEN [kind |-> "true", msg |-> "", value |-> None]
    ELSE [kind |-> "false", msg |-> "", value |-> None]

ping_return ==
    /\ call # None /\ call[1].op = "ping"
    /\ \E res \in Responses \cup {NoResponse} :
        Finish(ping_outcome(res), res)
    /\ UNCHANGED docs

InvalidCredentialsMsg == "Invalid authentication credentials."
UnknowMsg == "There is something wrong"

\* a write_points that leaves the precision out when none is supplied
write_param_no_default(precision, rp) ==
    << <<"db", db>> >>
    \o (IF precision # None THEN << <<"precision", to_str(precision[1])>> >> ELSE <<>>)
    \o (IF rp # None THEN << <<"rp", rp[1]>> >> ELSE <<>>)

\* write_points: the parameters of the write request
write_param(precision, rp) ==
    << <<"db", db>> >>
    \o (IF precision # None THEN << <<"precision", to_str(precision[1])>> >>
        ELSE << <<"precision", "s">> >>)
    \o (IF rp # None THEN << <<"rp", rp[1]>> >> ELSE <<>>)

write_points_start(op, points, precision, rp) ==
    Start([NoArgs(op) EXCEPT !.points = points, !.precision = precision, !.rp = rp],
          "POST", build_url("write", write_param(precision, rp)),
          line_serialization(points))

\* a write_points that also trims the body of a 500
write_outcome_trimmed(res) ==
    CASE res.status \in {200, 204} -> Ok(None)
      [] res.status = 400 -> Err("SyntaxError", conversion(res.body))
      [] res.status \in {401, 403} -> Err("InvalidCredentials", InvalidCredentialsMsg)
      [] res.status = 404 -> Err("DataBaseDoesNotExist", conversion(res.body))
      [] res.status = 500 -> Err("RetentionPolicyDoesNotExist", conversion(res.body))
      [] OTHER -> Err("Unknow", UnknowMsg)

\* write_points: the match on the status of the response
write_outcome(res) ==
    CASE res.status \in {200, 204} -> Ok(None)
      [] res.status = 400 -> Err("SyntaxError", conversion(res.body))
      [] res.status \in {401, 403} -> Err("InvalidCredentials", InvalidCredentialsMsg)
      [] res.status = 404 -> Err("DataBaseDoesNotExist", conversion(res.body))
      [] res.status = 500 -> Err("RetentionPolicyDoesNotExist", res.body)
      [] OTHER -> Err("Unknow", UnknowMsg)

write_points ==
    /\ \E points \in PointsInputs, precision \in {None} \cup {Some(p) : p \in Precisions},
          rp \in {None} \cup {Some(r) : r \in RetentionPolicies} :
        write_points_start("write_points", points, precision, rp)
    /\ UNCHANGED <<point, order>>

\* write_point: Points::new(point), then write_points
write_point_call(pts) ==
    \E p \in pts, precision \in {None} \cup {Some(t) : t \in Precisions},
       rp \in {None} \cup {Some(r) : r \in RetentionPolicies} :
        write_points_start("write_point", <<p>>, precision, rp)

\* write_point with a point made elsewhere
write_point ==
    /\ write_point_call(PointInputs)
    /\ UNCHANGED <<point, order>>

\* write_point with the point the caller built, which it gives away
write_built_point ==
    /\ point # None
    /\ write_point_call({point[1]})
    /\ point' = None
    /\ UNCHANGED order

write_points_return ==
    /\ call # None /\ call[1].op \in {"write_point", "write_points"}
    /\ \E res \in Responses \cup {NoResponse} :
        Finish(IF res = NoResponse THEN TransportError ELSE write_outcome(res), res)
    /\ UNCHANGED docs

----------------------------------------------------------------------------
(* The query path                                                          *)

\* send_request: the parameters of the query request
query_param(q, epoch, chunked) ==
    << <<"db", db>>, <<"q", q>> >>
    \o (IF epoch # None THEN << <<"epoch", to_str(epoch[1])>> >> ELSE <<>>)
    \o (IF chunked THEN << <<"chunked", "true">> >> ELSE <<>>)

\* a send_request that posts every statement with into
http_method_no_into(q) ==
    LET q_lower == to_lowercase(q)
    IN  IF (starts_with(q_lower, "select") \/ starts_with(q_lower, "show"))
           /\ ~contains(q_lower, "into")
        THEN "GET" ELSE "POST"

\* send_request: GET or POST, by the lowercased statement
http_method(q) ==
    LET q_lower == to_lowercase(q)
    IN  IF (starts_with(q_lower, "select") /\ ~contains(q_lower, "into"))
           \/ starts_with(q_lower, "show")
        THEN "GET" ELSE "POST"

send_request(op, q, epoch, chunked) ==
    Start([NoArgs(op) EXCEPT !.q = q, !.epoch = epoch, !.chunked = chunked],
          http_method(q), build_url("query", query_param(q, epoch, chunked)), "")

\* a send_request whose match has 403 but not 401
send_request_outcome_403_only(res) ==
    CASE res.status \in {200, 204} -> Ok(Some(res))
      [] res.status = 400 ->
            LET json_data == from_str(res.body)
            IN  IF ~json_data.ok THEN Panic
                ELSE IF json_data.val.error = None THEN Panic
                ELSE Err("SyntaxError", conversion(json_data.val.error[1]))
      [] res.status = 403 -> Err("InvalidCredentials", InvalidCredentialsMsg)
      [] OTHER -> Err("Unknow", UnknowMsg)

\* send_request: the match on the status of the response; Ok carries the
\* response, whose body is still unread
send_request_outcome(res) ==
    CASE res.status \in {200, 204} -> Ok(Some(res))
      [] res.status = 400 ->
            LET json_data == from_str(res.body)
            IN  IF ~json_data.ok THEN Panic
                ELSE IF json_data.val.error = None THEN Panic
                ELSE Err("SyntaxError", conversion(json_data.val.error[1]))
      [] res.status \in {401, 403} -> Err("InvalidCredentials", InvalidCredentialsMsg)
      [] OTHER -> Err("Unknow", UnknowMsg)

\* query_raw: the whole body as one Query
query_raw_outcome(res) ==
    LET sent == send_request_outcome(res)
    IN  IF sent.kind # "Ok" THEN sent
        ELSE LET json_data == from_str(sent.value[1].body)
             IN  IF json_data.ok THEN Ok(Some(json_data.val)) ELSE Panic

\* query: the results of the Query
query_outcome(res) ==
    LET t == query_raw_outcome(res)
    IN  IF t.kind = "Ok" THEN Ok(Some(t.value[1].results)) ELSE t

Epochs == {None, Some("Milliseconds")}
QueryStatements == {"select x", "insert x"}

query_call(statements) ==
    /\ \E q \in statements, epoch \in Epochs : send_request("query", q, epoch, FALSE)
    /\ UNCHANGED <<point, order>>

\* query with one of a few statements
query == query_call(QueryStatements)

\* query with any statement of up to MaxFrags fragments
query_statement == query_call(Statements)

query_return ==
    /\ call # None /\ call[1].op = "query"
    /\ \E res \in Responses \cup {NoResponse} :
        Finish(IF res = NoResponse THEN TransportError ELSE query_outcome(res), res)
    /\ UNCHANGED docs

----------------------------------------------------------------------------
(* The administrative methods: a statement through query_raw               *)

drop_measurement_sql(measurement) == "Drop measurement " \o quote_ident(measurement)
create_database_sql(dbname) == "Create database " \o quote_ident(dbname)
drop_database_sql(dbname) == "Drop database " \o quote_ident(dbname)
create_user_sql(user, passwd, admin) ==
    IF admin
    THEN "Create user " \o quote_ident(user) \o " with password "
         \o quote_literal(passwd) \o " with all privileges"
    ELSE "Create user " \o quote_ident(user) \o " WITH password " \o quote_literal(passwd)
drop_user_sql(user) == "Drop user " \o quote_ident(user)
set_user_password_sql(user, passwd) ==
    "Set password for " \o quote_ident(user) \o "=" \o quote_literal(passwd)
grant_admin_privileges_sql(user) == "Grant all privileges to " \o quote_ident(user)
revoke_admin_privileges_sql(user) == "Revoke all privileges from " \o quote_ident(user)
grant_privilege_sql(user, database, privilege) ==
    "Grant " \o privilege \o " on " \o quote_ident(database) \o " to " \o quote_ident(user)
revoke_privilege_sql(user, database, privilege) ==
    "Revoke " \o privilege \o " on " \o quote_ident(database) \o " from " \o quote_ident(user)
create_retention_policy_sql(name, duration, replication, default, database) ==
    "Create retention policy " \o quote_ident(name)
    \o " on " \o quote_ident(IF database # None THEN database[1] ELSE db)
    \o " duration " \o duration \o " replication " \o replication
    \o (IF default THEN " default" ELSE "")
drop_retention_policy_sql(name, database) ==
    "Drop retention policy " \o quote_ident(name)
    \o " on " \o quote_ident(IF database # None THEN database[1] ELSE db)

AdminMethods ==
    {"drop_measurement", "create_database", "drop_database", "create_user",
     "drop_user", "set_user_password", "grant_admin_privileges",
     "revoke_admin_privileges", "grant_privilege", "revoke_privilege",
     "create_retention_policy", "drop_retention_policy"}

\* the statements the administrative methods build from the caller's arguments
AdminStatements(m) ==
    CASE m = "drop_measurement" -> {drop_measurement_sql("cpu")}
      [] m = "create_database" -> {create_database_sql("mydb")}
      [] m = "drop_database" -> {drop_database_sql("mydb")}
      [] m = "create_user" -> {create_user_sql("u", "p'w", a) : a \in BOOLEAN}
      [] m = "drop_user" -> {drop_user_sql("u")}
      [] m = "set_user_password" -> {set_user_password_sql("u", "p'w")}
      [] m = "grant_admin_privileges" -> {grant_admin_privileges_sql("u")}
      [] m = "revoke_admin_privileges" -> {revoke_admin_privileges_sql("u")}
      [] m = "grant_privilege" -> {grant_privilege_sql("u", "mydb", "select")}
      [] m = "revoke_privilege" -> {revoke_privilege_sql("u", "mydb", "all")}
      [] m = "create_retention_policy" ->
            {create_retention_policy_sql("rp", "1h", "1", d, o) :
                d \in BOOLEAN, o \in {None, Some("mydb")}}
      [] m = "drop_retention_policy" ->
            {drop_retention_policy_sql("rp", o) : o \in {None, Some("mydb")}}

admin ==
    /\ \E m \in AdminMethods : \E sql \in AdminStatements(m) :
        send_request(m, sql, None, FALSE)
    /\ UNCHANGED <<point, order>>

\* match self.query_raw(..) { Ok(_) => Ok(()), Err(e) => Err(e) }
admin_outcome(res) ==
    LET t == query_raw_outcome(res)
    IN  IF t.kind = "Ok" THEN Ok(None) ELSE t

admin_return ==
    /\ call # None /\ call[1].op \in AdminMethods
    /\ \E res \in Responses \cup {NoResponse} :
        Finish(IF res = NoResponse THEN TransportError ELSE admin_outcome(res), res)
    /\ UNCHANGED docs

----------------------------------------------------------------------------
(* The chunked query: a serde_json StreamDeserializer over the response    *)

ChunkedStatements == {"select x", "SHOW x"}

query_chunked ==
    /\ \E q \in ChunkedStatements, epoch \in Epochs :
        send_request("query_chunked", q, epoch, TRUE)
    /\ UNCHANGED <<point, order>>

\* query_raw_chunked: the stream starts at the first byte of the body and
\* has read nothing yet
query_raw_chunked_outcome(res) ==
    LET sent == send_request_outcome(res)
    IN  IF sent.kind # "Ok" THEN sent
        ELSE Ok(Some([body |-> sent.value[1].body, pos |-> 1,
                      failed |-> FALSE, ended |-> FALSE]))

query_chunked_returns(docSeqs) ==
    /\ call # None /\ call[1].op = "query_chunked"
    /\ \/ \E status \in Statuses, d \in docSeqs :
            /\ Finish(query_raw_chunked_outcome([status |-> status, body |-> Concat(d)]),
                      [status |-> status, body |-> Concat(d)])
            /\ docs' = d
       \/ Finish(TransportError, NoResponse) /\ docs' = <<>>

\* the response carries at most one document
query_chunked_return == query_chunked_returns({d \in DocSeqs : Len(d) <= 1})

\* the response carries up to MaxDocs documents
query_chunked_stream == query_chunked_returns(DocSeqs)

NoQuery == [results |-> None, error |-> None]

\* a stream that has read the whole body once it yields a value
stream_next_buffered(s) ==
    LET i == SkipWs(s.body, s.pos)
        p == ParseValue(s.body, i)
        t == QueryOf(p.val)
    IN  IF s.failed THEN [stream |-> [s EXCEPT !.ended = TRUE], items |-> <<>>]
        ELSE IF i > Len(s.body)
        THEN [stream |-> [s EXCEPT !.pos = i, !.ended = TRUE], items |-> <<>>]
        ELSE IF p.ok /\ t.ok
        THEN [stream |-> [s EXCEPT !.pos = Len(s.body) + 1],
              items |-> <<[item |-> "Ok", value |-> t.val, pos |-> Len(s.body) + 1]>>]
        ELSE [stream |-> [s EXCEPT !.failed = TRUE],
              items |-> <<[item |-> "Err", value |-> NoQuery, pos |-> s.pos]>>]

\* StreamDeserializer::next on the stream s: the stream after the pull and
\* the item it yields (none at the end of the body or after a failure)
stream_next(s) ==
    LET i == SkipWs(s.body, s.pos)
        p == ParseValue(s.body, i)
        t == QueryOf(p.val)
    IN  IF s.failed THEN [stream |-> [s EXCEPT !.ended = TRUE], items |-> <<>>]
        ELSE IF i > Len(s.body)
        THEN [stream |-> [s EXCEPT !.pos = i, !.ended = TRUE], items |-> <<>>]
        ELSE IF p.ok /\ t.ok
        THEN [stream |-> [s EXCEPT !.pos = p.next],
              items |-> <<[item |-> "Ok", value |-> t.val, pos |-> p.next]>>]
        ELSE [stream |-> [s EXCEPT !.failed = TRUE],
              items |-> <<[item |-> "Err", value |-> NoQuery, pos |-> s.pos]>>]

\* the caller pulls the next item of the ChunkedQuery it was returned
next ==
    /\ Idle
    /\ result.op = "query_chunked" /\ result.kind = "Ok"
    /\ LET n == stream_next(result.value[1])
       IN  /\ result' = [result EXCEPT !.value = Some(n.stream)]
           /\ yielded' = yielded \o n.items
    /\ UNCHANGED <<host, db, authentication, call, request, response, point, order,
                   docs>>

----------------------------------------------------------------------------
(* Building a point (keys.rs)                                              *)

Adds(p) == Len(p.tags) + Len(p.fields)

new_point ==
    /\ Idle
    /\ \E m \in Measurements : point' = Some(NewPoint(m))
    /\ order' = <<>>
    /\ UNCHANGED <<host, db, authentication, call, request, response, result,
                   docs, yielded>>

add_tag ==
    /\ Idle
    /\ point # None /\ Adds(point[1]) < MaxAdds
    /\ \E t \in TagInputs :
        point' = Some([point[1] EXCEPT !.tags = Append(@, t)])
    /\ order' = Append(order, "tag")
    /\ UNCHANGED <<host, db, authentication, call, request, response, result,
                   docs, yielded>>

add_field ==
    /\ Idle
    /\ point # None /\ Adds(point[1]) < MaxAdds
    /\ \E f \in FieldInputs :
        point' = Some([point[1] EXCEPT !.fields = Append(@, f)])
    /\ order' = Append(order, "field")
    /\ UNCHANGED <<host, db, authentication, call, request, response, result,
                   docs, yielded>>

add_timestamp ==
    /\ Idle
    /\ point # None
    /\ \E ts \in Timestamps :
        point' = Some([point[1] EXCEPT !.timestamp = Some(ts)])
    /\ order' = order
    /\ UNCHANGED <<host, db, authentication, call, request, response, result,
                   docs, yielded>>

----------------------------------------------------------------------------

Init ==
    /\ host \in Hosts
    /\ db \in DbNames
    /\ authentication = None
    /\ call = None
    /\ request = None
    /\ response = NoResponse
    /\ result = NoResult
    /\ point = None
    /\ order = <<>>
    /\ docs = <<>>
    /\ yielded = <<>>

\* the client: every call that sends a request, and its return
Next ==
    \/ switch_database
    \/ set_authentication
    \/ get_db
    \/ ping
    \/ ping_return
    \/ write_points
    \/ write_point
    \/ write_points_return
    \/ query
    \/ query_return
    \/ admin
    \/ admin_return
    \/ query_chunked
    \/ query_chunked_return
    \/ next

Spec == Init /\ [][Next]_vars

\* the caller builds a point and writes it
NextPoint ==
    \/ new_point
    \/ add_tag
    \/ add_field
    \/ add_timestamp
    \/ write_built_point
    \/ write_points_return

SpecPoint == Init /\ [][NextPoint]_vars

\* queries with every statement
NextMethod ==
    \/ query_statement
    \/ query_return

SpecMethod == Init /\ [][NextMethod]_vars

\* chunked queries and the pulls of their streams
NextChunked ==
    \/ query_chunked
    \/ query_chunked_stream
    \/ next

SpecChunked == Init /\ [][NextChunked]_vars

----------------------------------------------------------------------------
(* The properties                                                          *)

WriteOps == {"write_point", "write_points"}
QueryOps == {"query", "query_chunked"} \cup AdminMethods

\* the values of the parameter k in a query string, in order
RECURSIVE ParamValues(_, _)
ParamValues(params, k) ==
    IF params = <<>> THEN <<>>
    ELSE (IF Head(params)[1] = k THEN <<Head(params)[2]>> ELSE <<>>)
         \o ParamValues(Tail(params), k)

\* C1: whatever status and body the server answers a write_points or a
\* write_point with, the result follows the status: 200 and 204 are Ok(()),
\* 400 is SyntaxError with the conversion of the body, 401 and 403 are
\* InvalidCredentials with the fixed message, 404 is DataBaseDoesNotExist
\* with the conversion of the body, 500 is RetentionPolicyDoesNotExist with
\* the body as it came, any other status is Unknow with the generic message.
C1_WriteStatusTable ==
    (result.op \in WriteOps /\ response # NoResponse) =>
        /\ response.status \in {200, 204} =>
                result.kind = "Ok" /\ result.value = None
        /\ response.status = 400 =>
                result.kind = "SyntaxError" /\ result.msg = conversion(response.body)
        /\ response.status \in {401, 403} =>
                result.kind = "InvalidCredentials" /\ result.msg = InvalidCredentialsMsg
        /\ response.status = 404 =>
                /\ result.kind = "DataBaseDoesNotExist"
                /\ result.msg = conversion(response.body)
        /\ response.status = 500 =>
                /\ result.kind = "RetentionPolicyDoesNotExist"
                /\ result.msg = response.body
        /\ response.status \notin {200, 204, 400, 401, 403, 404, 500} =>
                result.kind = "Unknow" /\ result.msg = UnknowMsg

\* a write answered 500 with a body that the conversion would have changed
C1_Write500RawBody ==
    /\ result.op = "write_points"
    /\ response.status = 500
    /\ response.body = "'no'\n"
    /\ conversion(response.body) = "no"
    /\ result.kind = "RetentionPolicyDoesNotExist"
    /\ result.msg = "'no'\n"

\* C2: whatever status and body the server answers on the query path
\* (query, query_chunked, the administrative methods), 200 and 204 are a
\* success, the body parsed as one Query whose results query returns; 400 is
\* SyntaxError with the conversion of the error field of the body parsed as
\* a Query; 401 and 403 are InvalidCredentials with the fixed message; any
\* other status is Unknow with the generic message.
C2_QueryStatusTable ==
    (result.op \in QueryOps /\ response # NoResponse) =>
        /\ response.status \in {200, 204} =>
                /\ result.kind = "Ok"
                /\ result.op = "query" =>
                        /\ from_str(response.body).ok
                        /\ result.value = Some(from_str(response.body).val.results)
        /\ response.status = 400 =>
                /\ result.kind = "SyntaxError"
                /\ from_str(response.body).ok
                /\ from_str(response.body).val.error # None
                /\ result.msg = conversion(from_str(response.body).val.error[1])
        /\ response.status \in {401, 403} =>
                result.kind = "InvalidCredentials" /\ result.msg = InvalidCredentialsMsg
        /\ response.status \notin {200, 204, 400, 401, 403} =>
                result.kind = "Unknow" /\ result.msg = UnknowMsg

\* the table of C2 wherever the call returned: it fails only by a panic
QueryStatusTableUnlessPanic ==
    result.kind # "panic" => C2_QueryStatusTable

\* C3: no call panics, whatever the host, the status and the body; every
\* failure comes back as an error value.
C3_NoPanic == result.kind # "panic"

\* C4, as claimed: a 401 makes every call that sent a request, ping among
\* them, return InvalidCredentials, whatever the body.
C4_401InvalidCredentialsEveryCall ==
    (result.op # "" /\ response.status = 401) => result.kind = "InvalidCredentials"

\* C4: a 401 makes write_point, write_points, query, query_chunked and every
\* administrative method return InvalidCredentials with the fixed message,
\* whatever the body; ping, which returns a bool, returns false.
C4_401InvalidCredentials ==
    (result.op # "" /\ response.status = 401) =>
        IF result.op = "ping" THEN result.kind = "false"
        ELSE /\ result.op \in WriteOps \cup QueryOps
             /\ result.kind = "InvalidCredentials"
             /\ result.msg = InvalidCredentialsMsg

\* an administrative method answered 401 with a body that parses
C4_Admin401 ==
    /\ result.op = "create_database"
    /\ response.status = 401
    /\ response.body = "{\"results\":[]}"
    /\ result.kind = "InvalidCredentials"

\* C5: a write answered 400 with a JSON body that has an error field returns
\* SyntaxError with the message the query path returns for that body: the
\* conversion of the error field (foo for {"error":"foo"}).
C5_WriteSyntaxErrorMessage ==
    (/\ result.op \in WriteOps
     /\ response.status = 400
     /\ from_str(response.body).ok
     /\ from_str(response.body).val.error # None) =>
        /\ result.kind = "SyntaxError"
        /\ result.msg = send_request_outcome(response).msg
        /\ result.msg = conversion(from_str(response.body).val.error[1])

\* the query request in flight
QueryInFlight == call # None /\ call[1].op = "query"

\* C6, as claimed: a statement goes out with GET exactly when its lowercase
\* starts with select or with show and has no into, and with POST otherwise.
C6_GetIffSelectOrShowWithoutInto ==
    QueryInFlight =>
        (request[1].method = "GET" <=>
            /\ \/ starts_with(to_lowercase(call[1].q), "select")
               \/ starts_with(to_lowercase(call[1].q), "show")
            /\ ~contains(to_lowercase(call[1].q), "into"))

\* C6: a statement goes out with GET or with POST; with GET exactly when its
\* lowercase starts with show, or starts with select and has no into in it.
\* So a show statement goes out with GET even with into in it, and a select
\* statement goes out with POST exactly when into occurs in it.
C6_GetIffShowOrSelectWithoutInto ==
    QueryInFlight =>
        /\ request[1].method \in {"GET", "POST"}
        /\ starts_with(to_lowercase(call[1].q), "show") => request[1].method = "GET"
        /\ (/\ starts_with(to_lowercase(call[1].q), "select")
            /\ ~contains(to_lowercase(call[1].q), "into")) => request[1].method = "GET"
        /\ (/\ starts_with(to_lowercase(call[1].q), "select")
            /\ contains(to_lowercase(call[1].q), "into")) => request[1].method = "POST"
        /\ (/\ ~starts_with(to_lowercase(call[1].q), "select")
            /\ ~starts_with(to_lowercase(call[1].q), "show")) => request[1].method = "POST"

\* a show statement with into in it, on its way with GET
C6_ShowIntoSentWithGet ==
    /\ QueryInFlight
    /\ call[1].q = "SHOW x into "
    /\ request[1].method = "GET"

\* the documents of the response are all Query documents
QueryDocuments == \A k \in 1..Len(docs) : from_str(docs[k]).ok

\* the number of characters of the first k documents
Offset(k) == Len(Concat(SubSeq(docs, 1, k)))

\* the stream of a chunked query that returned Ok
ChunkedStream == result.op = "query_chunked" /\ result.kind = "Ok"

\* what has been yielded so far is the Query of each document in turn, and
\* the stream stands inside or at the end of the last document it yielded
C7_InOrder ==
    (ChunkedStream /\ QueryDocuments) =>
        /\ Len(yielded) <= Len(docs)
        /\ \A k \in 1..Len(yielded) :
            /\ yielded[k].item = "Ok"
            /\ yielded[k].value = from_str(docs[k]).val
            /\ Offset(k - 1) < yielded[k].pos - 1
            /\ yielded[k].pos - 1 <= Offset(k)
        /\ result.value[1].pos - 1 <= Offset(Len(yielded))
        /\ result.value[1].ended => Len(yielded) = Len(docs)

\* a pull adds the next value while documents are left and ends the
\* stream when none is; it never takes a value back
C7_Pull ==
    (ChunkedStream /\ QueryDocuments /\ next) =>
        /\ SubSeq(yielded', 1, Len(yielded)) = yielded
        /\ IF Len(yielded) < Len(docs)
           THEN Len(yielded') = Len(yielded) + 1 /\ ~result'.value[1].ended
           ELSE yielded' = yielded /\ result'.value[1].ended

RECURSIVE SplitLine(_, _, _, _, _)
SplitLine(s, sep, cur, quoted, acc) ==
    IF s = "" THEN Append(acc, cur)
    ELSE IF Head(s) = "\\" /\ Len(s) >= 2
    THEN SplitLine(SubSeq(s, 3, Len(s)), sep, cur \o SubSeq(s, 1, 2), quoted, acc)
    ELSE IF Head(s) = "\""
    THEN SplitLine(Tail(s), sep, cur \o "\"", ~quoted, acc)
    ELSE IF Head(s) = sep /\ ~quoted
    THEN SplitLine(Tail(s), sep, "", FALSE, Append(acc, cur))
    ELSE SplitLine(Tail(s), sep, cur \o Head(s), quoted, acc)

Split(s, sep) == SplitLine(s, sep, "", FALSE, <<>>)

\* a part with one layer of backslashes taken off
RECURSIVE Unescape(_)
Unescape(s) ==
    IF s = "" THEN ""
    ELSE IF Head(s) = "\\" /\ Len(s) >= 2
    THEN Char(s, 2) \o Unescape(SubSeq(s, 3, Len(s)))
    ELSE Head(s) \o Unescape(Tail(s))

\* the keys of key=value parts
LineKeys(parts) == [n \in 1..Len(parts) |-> Unescape(Split(parts[n], "=")[1])]

PointKeys(pairs) == [n \in 1..Len(pairs) |-> pairs[n][1]]

\* the line reads back as the point p: measurement, tags, fields, timestamp
LineOf(line, p) ==
    /\ Len(Split(line, " ")) = 2 + (IF p.timestamp = None THEN 0 ELSE 1)
    /\ Len(Split(Split(line, " ")[1], ",")) = 1 + Len(p.tags)
    /\ Unescape(Split(Split(line, " ")[1], ",")[1]) = p.measurement
    /\ LineKeys(Tail(Split(Split(line, " ")[1], ","))) = PointKeys(p.tags)
    /\ IF p.fields = <<>> THEN Split(line, " ")[2] = ""
       ELSE LineKeys(Split(Split(line, " ")[2], ",")) = PointKeys(p.fields)
    /\ p.timestamp # None => Split(line, " ")[3] = IntToStr(p.timestamp[1])

\* the write of a built point in flight
BuiltPointInFlight == call # None /\ call[1].op = "write_point"

\* C8: the line a write sends for a point, however add_tag and add_field
\* were interleaved to build it, reads measurement, tags, fields, timestamp:
\* the first part is the measurement followed by one ,key=value per tag in
\* the order the tags were added (nothing but the measurement when there
\* are no tags), the second part is the fields in the order they were added,
\* the third part, present when a timestamp was set, is the timestamp.
C8_TagsBeforeFields ==
    BuiltPointInFlight =>
        /\ LineOf(request[1].body, call[1].points[1])
        /\ Len(call[1].points[1].tags) = Len(SelectSeq(order, LAMBDA o : o = "tag"))
        /\ Len(call[1].points[1].fields) = Len(SelectSeq(order, LAMBDA o : o = "field"))

\* a point whose field was added before its two tags
C8_FieldAddedFirst ==
    /\ BuiltPointInFlight
    /\ order = <<"field", "tag", "tag">>
    /\ PointKeys(call[1].points[1].tags) = <<"n", "city">>
    /\ call[1].points[1].timestamp # None
    /\ request[1].body = "te\\ mp,n=12,city=N\\ Y s\\,x=\"a \\\"b\\\"\" 150"

\* the write request in flight
WriteInFlight == call # None /\ call[1].op \in WriteOps

\* C9: a write request carries db once, the database the client holds when
\* the call is made; precision once, the token of the precision supplied or
\* s, the token of seconds, when none is; and rp, once, exactly when a
\* retention policy is supplied.
C9_WriteParameters ==
    WriteInFlight =>
        /\ request[1].path = "write"
        /\ ParamValues(request[1].query, "db") = <<db>>
        /\ ParamValues(request[1].query, "precision") =
                <<IF call[1].precision = None THEN "s" ELSE to_str(call[1].precision[1])>>
        /\ to_str("Seconds") = "s"
        /\ ParamValues(request[1].query, "rp") =
                (IF call[1].rp = None THEN <<>> ELSE <<call[1].rp[1]>>)

\* a write without a precision and with a retention policy, after a user
\* was set
C9_DefaultPrecision ==
    /\ WriteInFlight
    /\ call[1].precision = None
    /\ call[1].rp = Some("autogen")
    /\ authentication # None
    /\ db = "mydb"
    /\ request[1].query =
        << <<"u", "root">>, <<"p", "root">>, <<"db", "mydb">>, <<"precision", "s">>,
           <<"rp", "autogen">> >>

\* C10: an administrative method returns Ok(()) exactly when the status is
\* 200 or 204 and the body parses as a Query, whatever error fields the
\* body holds, and returns the error of the query path otherwise.
C10_AdminOkIffQueryOk ==
    (result.op \in AdminMethods /\ response # NoResponse) =>
        /\ result.kind = "Ok" <=>
                (response.status \in {200, 204} /\ from_str(response.body).ok)
        /\ result.kind = "Ok" => result.value = None
        /\ result.kind # "Ok" =>
                /\ result.kind \in {"SyntaxError", "InvalidCredentials", "Unknow"}
                /\ result.kind = send_request_outcome(response).kind
                /\ result.msg = send_request_outcome(response).msg

\* C10 wherever the method returned: it fails only by a panic
AdminOkIffQueryOkUnlessPanic ==
    result.kind # "panic" => C10_AdminOkIffQueryOk

\* a statement error in the body of a 200 is no error of the method
AdminOkOnStatementError ==
    (/\ result.op \in AdminMethods
     /\ response.status = 200
     /\ response.body = "{\"results\":[{\"error\":\"bad\"}]}") => result.kind = "Ok"
====
